---- MODULE Spec2Model ----
(***************************************************************************)
(* Model of src/app.py: the Gradio callback analyze_image, which uploads   *)
(* an image to S3 under a fresh name and polls a DynamoDB table for the    *)
(* record an external pipeline writes under that name.                     *)
(*                                                                         *)
(* Every blocking call of the handler (upload_file, get_item, sleep) is    *)
(* one step, so that the external pipeline and other sessions' handlers    *)
(* can run between the calls of one invocation.                            *)
(***************************************************************************)
EXTENDS Integers, Sequences, FiniteSets, Bags, TLC

\* ---------------------------------------------------------------- bounds
\* Number of identifiers uuid4 can hand out in one run: bounds the number of
\* invocations with a file.
MaxUploads == 2

\* ------------------------------------------------------ program constants
max_retries == 30
\* time.sleep(2): the seconds slept after a lookup that found nothing.
SleepSeconds == 2

PleaseUpload == "Please upload an image."
NoDescription == "No description"
TimeoutMsg == "Timeout: AI did not respond or Lambda encountered an error."
ErrPrefix == "An error occurred: "

\* ------------------------------------------------------------ input sets
\* Browser sessions whose click handlers may run at the same time.
Sessions == {"s1", "s2"}
\* Python's None, for image_path, file_name and the return value.
None == "None"
\* The local response before its first assignment.
Unbound == [Unbound |-> TRUE]
\* Local file paths Gradio passes to the handler.
Paths == {"cat.png"}
\* str(e) of the exceptions upload_file and get_item can raise.
Msgs == {"AccessDenied"}
\* Values the pipeline may store in a record's description field.
Descs == {"a cat"}
\* The values uuid4 can return.
UUIDs == {ToString(n) : n \in 1..MaxUploads}
Ord(u) == CHOOSE n \in 1..MaxUploads : ToString(n) = u

VARIABLES
    pc,          \* per session: where its handler stands
    image_path,  \* per session: the handler's argument
    file_name,   \* per session: the local file_name
    i,           \* per session: the loop variable
    response,    \* per session: the local response (last get_item result)
    result,      \* per session: the value returned
    bucket,      \* the S3 bucket: a set of objects [Key, Body]
    table,       \* the DynamoDB table: a set of items
    issued,      \* the values uuid4 has returned so far
    names,       \* bag of the file_names generated so far in the run
    puts,        \* bag of the keys objects were written under so far
    raised,      \* per session: str(e) of the exception caught, or None
    uploadKeys,  \* per session: keys passed to upload_file in this invocation
    lookupKeys,  \* per session: keys passed to get_item in this invocation
    uploads,     \* per session: upload_file calls of this invocation
    lookups,     \* per session: get_item calls of this invocation
    sleeps,      \* per session: time.sleep calls of this invocation
    slept        \* per session: seconds slept in this invocation

locals == <<image_path, file_name, i, response, result>>
stores == <<bucket, table>>
history == <<names, puts, raised, uploadKeys, lookupKeys, uploads, lookups, sleeps,
            slept>>
vars == <<pc, locals, stores, issued, history>>

\* ----------------------------------------------------------- the stores
\* Keys present in the bucket.
BucketKeys == {o.Key : o \in bucket}

\* s3.upload_file(path, BUCKET_NAME, key): put, replacing any object at key.
upload_file(b, path, key) ==
    {o \in b : o.Key # key} \cup {[Key |-> key, Body |-> path]}

\* table.get_item(Key={'image_id': key}): the response carries 'Item' only
\* when an item with that key exists.
get_item(t, key) ==
    IF \E it \in t : it.image_id = key
    THEN [Item |-> CHOOSE it \in t : it.image_id = key]
    ELSE [ResponseMetadata |-> "ok"]

\* Mutant: the field is never read, the default is always returned.
GetDescriptionDefault(data) == NoDescription

\* Mutant: data['description'], whose KeyError ends in the except branch.
GetDescriptionStrict(data) ==
    IF "description" \in DOMAIN data
    THEN data.description
    ELSE "An error occurred: 'description'"

\* data.get('description', 'No description')
GetDescription(data) ==
    IF "description" \in DOMAIN data THEN data.description ELSE NoDescription

\* Mutant: every upload gets the same name.
FileNameFixed(u) == "upload.jpg"

\* f"{uuid.uuid4()}.jpg"
FileNameOf(u) == u \o ".jpg"

\* Mutant: the exception's message is left out of the result.
ErrorResultNoMessage(m) == "An error occurred"

\* f"An error occurred: {str(e)}"
ErrorResult(m) == ErrPrefix \o m

\* The items the pipeline can write under a key: with or without a
\* description field.
ItemsFor(key) ==
    {[image_id |-> key]} \cup {[image_id |-> key, description |-> d] : d \in Descs}

\* ----------------------------------------------------------------- Init
Init ==
    /\ pc = [s \in Sessions |-> "idle"]
    /\ image_path = [s \in Sessions |-> None]
    /\ file_name = [s \in Sessions |-> None]
    /\ i = [s \in Sessions |-> 0]
    /\ response = [s \in Sessions |-> Unbound]
    /\ result = [s \in Sessions |-> None]
    /\ bucket = {}
    /\ table = {}
    /\ issued = {}
    /\ names = EmptyBag
    /\ puts = EmptyBag
    /\ raised = [s \in Sessions |-> None]
    /\ uploadKeys = [s \in Sessions |-> {}]
    /\ lookupKeys = [s \in Sessions |-> {}]
    /\ uploads = [s \in Sessions |-> 0]
    /\ lookups = [s \in Sessions |-> 0]
    /\ sleeps = [s \in Sessions |-> 0]
    /\ slept = [s \in Sessions |-> 0]

\* ------------------------------------------------------------ the handler
\* uuid.uuid4(): the values it can return next. It never returns a value
\* twice; which unused value comes is immaterial to the handler, so the
\* model hands them out in order.
uuid4 == {u \in UUIDs : /\ u \notin issued
                        /\ \A v \in UUIDs \ issued : Ord(u) <= Ord(v)}

\* The handler is entered with a path: lines 24-31.
InvokeFile(s, path, u) ==
    /\ pc[s] = "idle"
    /\ u \in uuid4
    /\ issued' = issued \cup {u}
    /\ image_path' = [image_path EXCEPT ![s] = path]
    /\ file_name' = [file_name EXCEPT ![s] = FileNameOf(u)]
    /\ names' = names (+) SetToBag({FileNameOf(u)})
    /\ pc' = [pc EXCEPT ![s] = "upload"]
    /\ UNCHANGED <<i, response, result, stores, puts, raised,
                   uploadKeys, lookupKeys, uploads, lookups, sleeps, slept>>

\* Mutant: the None check is missing, so the handler goes on to generate a
\* name and to call upload_file with no path.
InvokeNoneUnchecked(s) == \E u \in UUIDs : InvokeFile(s, None, u)

\* The handler is entered with image_path None: lines 24-25.
InvokeNone(s) ==
    /\ pc[s] = "idle"
    /\ image_path' = [image_path EXCEPT ![s] = None]
    /\ result' = [result EXCEPT ![s] = PleaseUpload]
    /\ pc' = [pc EXCEPT ![s] = "done"]
    /\ UNCHANGED <<file_name, i, response, stores, issued, history>>

\* The key argument of upload_file: line 34.
UploadKey(s) == file_name[s]

\* Mutant: file_name is a module-level global shared by the sessions, so a
\* lookup uses the name generated last.
LookupKeyGlobal(s) ==
    IF issued = {} THEN file_name[s]
    ELSE FileNameOf(CHOOSE u \in issued : \A v \in issued : Ord(v) <= Ord(u))

\* Mutant: the lookup is keyed by the local path, not the generated name.
LookupKeyPath(s) == image_path[s]

\* The key argument of get_item: line 39.
LookupKey(s) == file_name[s]

\* Mutant: the loop has no bound (while True).
LoopContinuesForever(n) == TRUE

\* Mutant: an off-by-one loop bound, one attempt too few.
LoopContinuesShort(n) == n < max_retries - 1

\* Mutant: an off-by-one loop bound, one attempt too many.
LoopContinuesInclusive(n) == n <= max_retries

\* for i in range(max_retries): the body runs for the index n.
LoopContinues(n) == n < max_retries

\* s3.upload_file returns: line 34, then the loop is entered (lines 37-38).
UploadOk(s) ==
    /\ pc[s] = "upload"
    /\ bucket' = upload_file(bucket, image_path[s], UploadKey(s))
    /\ puts' = puts (+) SetToBag({UploadKey(s)})
    /\ uploadKeys' = [uploadKeys EXCEPT ![s] = @ \cup {UploadKey(s)}]
    /\ uploads' = [uploads EXCEPT ![s] = @ + 1]
    /\ i' = [i EXCEPT ![s] = 0]
    /\ pc' = [pc EXCEPT ![s] = IF LoopContinues(0) THEN "lookup" ELSE "done"]
    /\ result' = [result EXCEPT ![s] = IF LoopContinues(0) THEN @ ELSE TimeoutMsg]
    /\ UNCHANGED <<image_path, file_name, response, table, issued,
                   names, raised, lookupKeys, lookups, sleeps, slept>>

\* Mutant: a failed upload is swallowed and the handler polls all the same.
UploadRaiseSwallowed(s, m) ==
    /\ pc[s] = "upload"
    /\ uploadKeys' = [uploadKeys EXCEPT ![s] = @ \cup {UploadKey(s)}]
    /\ uploads' = [uploads EXCEPT ![s] = @ + 1]
    /\ i' = [i EXCEPT ![s] = 0]
    /\ pc' = [pc EXCEPT ![s] = "lookup"]
    /\ UNCHANGED <<image_path, file_name, response, result, stores, issued,
                   names, puts, raised, lookupKeys, lookups, sleeps, slept>>

\* s3.upload_file raises: line 34, caught at lines 51-52.
UploadRaise(s, m) ==
    /\ pc[s] = "upload"
    /\ uploadKeys' = [uploadKeys EXCEPT ![s] = @ \cup {UploadKey(s)}]
    /\ uploads' = [uploads EXCEPT ![s] = @ + 1]
    /\ raised' = [raised EXCEPT ![s] = m]
    /\ result' = [result EXCEPT ![s] = ErrorResult(m)]
    /\ pc' = [pc EXCEPT ![s] = "done"]
    /\ UNCHANGED <<image_path, file_name, i, response, stores, issued,
                   names, puts, lookupKeys, lookups, sleeps, slept>>

\* Mutant: the handler deletes the record once it has read it.
LookupOkDeleting(s) ==
    /\ pc[s] = "lookup"
    /\ LET r == get_item(table, LookupKey(s)) IN
        /\ response' = [response EXCEPT ![s] = r]
        /\ IF "Item" \in DOMAIN r
           THEN /\ result' = [result EXCEPT ![s] = GetDescription(r.Item)]
                /\ pc' = [pc EXCEPT ![s] = "done"]
                /\ table' = table \ {r.Item}
           ELSE /\ pc' = [pc EXCEPT ![s] = "sleep"]
                /\ UNCHANGED <<result, table>>
    /\ lookupKeys' = [lookupKeys EXCEPT ![s] = @ \cup {LookupKey(s)}]
    /\ lookups' = [lookups EXCEPT ![s] = @ + 1]
    /\ UNCHANGED <<image_path, file_name, i, bucket, issued,
                   names, puts, raised, uploadKeys, uploads, sleeps, slept>>

\* table.get_item returns: lines 39-44. With an item the handler returns its
\* description; without one it goes on to sleep.
LookupOk(s) ==
    /\ pc[s] = "lookup"
    /\ LET r == get_item(table, LookupKey(s)) IN
        /\ response' = [response EXCEPT ![s] = r]
        /\ IF "Item" \in DOMAIN r
           THEN /\ result' = [result EXCEPT ![s] = GetDescription(r.Item)]
                /\ pc' = [pc EXCEPT ![s] = "done"]
           ELSE /\ pc' = [pc EXCEPT ![s] = "sleep"]
                /\ UNCHANGED result
    /\ lookupKeys' = [lookupKeys EXCEPT ![s] = @ \cup {LookupKey(s)}]
    /\ lookups' = [lookups EXCEPT ![s] = @ + 1]
    /\ UNCHANGED <<image_path, file_name, i, stores, issued,
                   names, puts, raised, uploadKeys, uploads, sleeps, slept>>

\* Mutant: a lookup that raises is retried like one that found nothing.
LookupRaiseRetry(s, m) ==
    /\ pc[s] = "lookup"
    /\ lookupKeys' = [lookupKeys EXCEPT ![s] = @ \cup {LookupKey(s)}]
    /\ lookups' = [lookups EXCEPT ![s] = @ + 1]
    /\ raised' = [raised EXCEPT ![s] = m]
    /\ pc' = [pc EXCEPT ![s] = "sleep"]
    /\ UNCHANGED <<image_path, file_name, i, response, result, stores, issued,
                   names, puts, uploadKeys, uploads, sleeps, slept>>

\* table.get_item raises: line 39, caught at lines 51-52.
LookupRaise(s, m) ==
    /\ pc[s] = "lookup"
    /\ lookupKeys' = [lookupKeys EXCEPT ![s] = @ \cup {LookupKey(s)}]
    /\ lookups' = [lookups EXCEPT ![s] = @ + 1]
    /\ raised' = [raised EXCEPT ![s] = m]
    /\ result' = [result EXCEPT ![s] = ErrorResult(m)]
    /\ pc' = [pc EXCEPT ![s] = "done"]
    /\ UNCHANGED <<image_path, file_name, i, response, stores, issued,
                   names, puts, uploadKeys, uploads, sleeps, slept>>

\* Mutant: the delay grows with the attempt (a linear back-off).
SleepBackoff(s) ==
    /\ pc[s] = "sleep"
    /\ sleeps' = [sleeps EXCEPT ![s] = @ + 1]
    /\ slept' = [slept EXCEPT ![s] = @ + SleepSeconds * (i[s] + 1)]
    /\ IF LoopContinues(i[s] + 1)
       THEN /\ i' = [i EXCEPT ![s] = @ + 1]
            /\ pc' = [pc EXCEPT ![s] = "lookup"]
            /\ UNCHANGED result
       ELSE /\ result' = [result EXCEPT ![s] = TimeoutMsg]
            /\ pc' = [pc EXCEPT ![s] = "done"]
            /\ UNCHANGED i
    /\ UNCHANGED <<image_path, file_name, response, stores, issued,
                   names, puts, raised, uploadKeys, lookupKeys, uploads, lookups>>

\* time.sleep(2) returns and the loop moves on: lines 46-49 and 38.
Sleep(s) ==
    /\ pc[s] = "sleep"
    /\ sleeps' = [sleeps EXCEPT ![s] = @ + 1]
    /\ slept' = [slept EXCEPT ![s] = @ + SleepSeconds]
    /\ IF LoopContinues(i[s] + 1)
       THEN /\ i' = [i EXCEPT ![s] = @ + 1]
            /\ pc' = [pc EXCEPT ![s] = "lookup"]
            /\ UNCHANGED result
       ELSE /\ result' = [result EXCEPT ![s] = TimeoutMsg]
            /\ pc' = [pc EXCEPT ![s] = "done"]
            /\ UNCHANGED i
    /\ UNCHANGED <<image_path, file_name, response, stores, issued,
                   names, puts, raised, uploadKeys, lookupKeys, uploads, lookups>>

\* The returned value is shown and the handler's frame is gone: the session
\* can click again (line 67).
Return(s) ==
    /\ pc[s] = "done"
    /\ pc' = [pc EXCEPT ![s] = "idle"]
    /\ image_path' = [image_path EXCEPT ![s] = None]
    /\ file_name' = [file_name EXCEPT ![s] = None]
    /\ i' = [i EXCEPT ![s] = 0]
    /\ response' = [response EXCEPT ![s] = Unbound]
    /\ result' = [result EXCEPT ![s] = None]
    /\ raised' = [raised EXCEPT ![s] = None]
    /\ uploadKeys' = [uploadKeys EXCEPT ![s] = {}]
    /\ lookupKeys' = [lookupKeys EXCEPT ![s] = {}]
    /\ uploads' = [uploads EXCEPT ![s] = 0]
    /\ lookups' = [lookups EXCEPT ![s] = 0]
    /\ sleeps' = [sleeps EXCEPT ![s] = 0]
    /\ slept' = [slept EXCEPT ![s] = 0]
    /\ UNCHANGED <<stores, issued, names, puts>>

\* ------------------------------------------------- the external pipeline
\* The analysis pipeline writes (or rewrites) the record of an uploaded
\* object.
PipelinePut(item) ==
    /\ item.image_id \in BucketKeys
    /\ item \notin table
    /\ table' = {it \in table : it.image_id # item.image_id} \cup {item}
    /\ UNCHANGED <<pc, locals, bucket, issued, history>>

\* ------------------------------------------------------------------ Next
Handler(s) ==
    \/ InvokeNone(s)
    \/ \E path \in Paths, u \in UUIDs : InvokeFile(s, path, u)
    \/ UploadOk(s)
    \/ \E m \in Msgs : UploadRaise(s, m)
    \/ LookupOk(s)
    \/ \E m \in Msgs : LookupRaise(s, m)
    \/ Sleep(s)
    \/ Return(s)

Pipeline == \E k \in BucketKeys : \E item \in ItemsFor(k) : PipelinePut(item)

Next ==
    \/ \E s \in Sessions : Handler(s)
    \/ Pipeline

Spec == Init /\ [][Next]_vars

\* The call a running invocation is blocked in returns or raises.
CallReturns(s) ==
    \/ UploadOk(s)
    \/ \E m \in Msgs : UploadRaise(s, m)
    \/ LookupOk(s)
    \/ \E m \in Msgs : LookupRaise(s, m)
    \/ Sleep(s)

\* The run under the assumption that every external call (upload_file,
\* get_item, time.sleep) returns or raises.
FairSpec == Spec /\ \A s \in Sessions : WF_vars(CallReturns(s))

\* ======================================================================
\* Properties
\* ======================================================================
\* An invocation that has passed the None check and not raised.
Polling(s) == pc[s] \in {"lookup", "sleep"}
\* The last lookup of s returned an item.
Found(s) == "Item" \in DOMAIN response[s]
\* The results of a caught exception.
ErrorResults == {ErrorResult(m) : m \in Msgs}
\* The item stored under a key, when there is one.
HasItem(key) == \E it \in table : it.image_id = key
ItemAt(key) == CHOOSE it \in table : it.image_id = key

\* C1: within an invocation, the key given to upload_file and the key given
\* to every get_item are one and the same identifier, the file_name generated
\* on entry, which does not change while the invocation runs.
C1_SameIdentifier ==
    \A s \in Sessions :
        /\ uploadKeys[s] \cup lookupKeys[s] \subseteq {file_name[s]}
        /\ lookups[s] > 0 => /\ lookupKeys[s] = uploadKeys[s]
                             /\ Cardinality(uploadKeys[s]) = 1
                             /\ file_name[s] \in {FileNameOf(u) : u \in issued}

\* C1 witness: an invocation has made all 30 lookups, each under the key of
\* its upload.
C1_Witness ==
    \E s \in Sessions :
        /\ lookups[s] = max_retries
        /\ uploadKeys[s] = {file_name[s]}
        /\ lookupKeys[s] = {file_name[s]}
        /\ file_name[s] \in BucketKeys

\* C2: a lookup that returns (raises nothing) while a record with a
\* description is stored under the invocation's identifier ends the
\* invocation with exactly that description, at whichever of the lookups
\* 1..30 it is.
C2_FoundReturnsDescription ==
    [][\A s \in Sessions :
         ( /\ pc[s] = "lookup"
           /\ pc'[s] # "lookup"
           /\ raised'[s] = None
           /\ HasItem(file_name[s])
           /\ "description" \in DOMAIN ItemAt(file_name[s]) )
         => /\ pc'[s] = "done"
            /\ result'[s] = ItemAt(file_name[s]).description
            /\ lookups'[s] \in 1..max_retries]_vars

\* C2 witness: the record was found at the 30th and last lookup and its
\* description returned.
C2_Witness ==
    \E s \in Sessions :
        /\ pc[s] = "done"
        /\ lookups[s] = max_retries
        /\ sleeps[s] = max_retries - 1
        /\ Found(s)
        /\ result[s] \in Descs

\* C3: no invocation ever makes more than 30 lookups; an invocation that
\* uploaded, never found a record and caught no exception ends with the
\* timeout message after exactly 30 lookups, and the timeout message is
\* returned in no other case.
C3_TimeoutAndCap ==
    \A s \in Sessions :
        /\ lookups[s] <= max_retries
        /\ (pc[s] = "done" /\ image_path[s] # None /\ raised[s] = None /\ ~Found(s))
              => (result[s] = TimeoutMsg /\ lookups[s] = max_retries)
        /\ result[s] = TimeoutMsg
              => (pc[s] = "done" /\ lookups[s] = max_retries /\ ~Found(s)
                  /\ raised[s] = None)

\* C3 witness: an invocation timed out after 30 lookups.
C3_Witness ==
    \E s \in Sessions :
        /\ pc[s] = "done"
        /\ result[s] = TimeoutMsg
        /\ lookups[s] = max_retries
        /\ ~HasItem(file_name[s])

\* C4: an invocation with image_path None returns "Please upload an image."
\* in one step that generates no identifier, uploads nothing and looks
\* nothing up: both stores and the call counters are as they were.
C4_NoneDoesNothing ==
    [][\A s \in Sessions :
         (pc[s] = "idle" /\ pc'[s] # "idle" /\ image_path'[s] = None)
         => /\ pc'[s] = "done"
            /\ result'[s] = PleaseUpload
            /\ file_name'[s] = None
            /\ bucket' = bucket /\ table' = table
            /\ issued' = issued /\ names' = names /\ puts' = puts
            /\ uploads'[s] = 0 /\ lookups'[s] = 0 /\ sleeps'[s] = 0
            /\ uploadKeys'[s] = {} /\ lookupKeys'[s] = {}]_vars

\* C4 witness: an invocation without a file has returned while the stores
\* hold an earlier upload and its record.
C4_Witness ==
    \E s \in Sessions :
        /\ pc[s] = "done"
        /\ image_path[s] = None
        /\ result[s] = PleaseUpload
        /\ uploads[s] = 0 /\ lookups[s] = 0
        /\ bucket # {} /\ table # {}

\* C5: an exception raised by upload_file or by any get_item never leaves
\* the handler: the invocation ends with "An error occurred: " followed by
\* the exception's message. A session whose handler has returned holds
\* nothing of the finished request and can enter the handler again.
C5_ErrorsAreCaught ==
    \A s \in Sessions :
        /\ raised[s] # None
              => /\ pc[s] = "done"
                 /\ raised[s] \in Msgs
                 /\ result[s] = ErrPrefix \o raised[s]
        /\ pc[s] = "idle"
              => /\ image_path[s] = None /\ file_name[s] = None
                 /\ i[s] = 0 /\ DOMAIN response[s] = {"Unbound"}
                 /\ result[s] = None /\ raised[s] = None
                 /\ uploads[s] = 0 /\ lookups[s] = 0 /\ sleeps[s] = 0
                 /\ uploadKeys[s] = {} /\ lookupKeys[s] = {}
                 /\ ENABLED InvokeNone(s)

\* C5 witness: one session's 30th lookup raised and it holds the error
\* result, while the other session is idle again after its upload raised.
C5_Witness ==
    \E s, t \in Sessions :
        /\ s # t
        /\ pc[s] = "done" /\ raised[s] # None /\ lookups[s] = max_retries
        /\ result[s] = ErrPrefix \o raised[s]
        /\ pc[t] = "idle"
        /\ Cardinality(issued) = 2 /\ Cardinality(bucket) = 1

\* C6: when a lookup returns a record that has no description field, the
\* invocation is over at that lookup with the result "No description",
\* which is not the timeout message.
C6_MissingFieldPlaceholder ==
    \A s \in Sessions :
        (Found(s) /\ "description" \notin DOMAIN response[s].Item)
        => /\ pc[s] = "done"
           /\ response[s].Item.image_id = file_name[s]
           /\ result[s] = NoDescription
           /\ result[s] # TimeoutMsg
           /\ sleeps[s] = lookups[s] - 1

\* C6 witness: the placeholder was returned for a record without the field,
\* after at least one miss, and the field has since been added to the record.
C6_Witness ==
    \E s \in Sessions :
        /\ pc[s] = "done" /\ Found(s)
        /\ "description" \notin DOMAIN response[s].Item
        /\ result[s] = NoDescription
        /\ lookups[s] > 1
        /\ HasItem(file_name[s])
        /\ "description" \in DOMAIN ItemAt(file_name[s])

\* C7: every file_name generated in a run is generated once, every object
\* key is written once, and the invocations in progress hold different
\* names.
C7_DistinctIdentifiers ==
    /\ \A k \in BagToSet(names) : CopiesIn(k, names) = 1
    /\ \A k \in BagToSet(puts) : CopiesIn(k, puts) = 1
    /\ \A s, t \in Sessions :
          (s # t /\ file_name[s] # None) => file_name[s] # file_name[t]
    /\ Cardinality(bucket) = BagCardinality(puts)

\* C7 witness: two invocations are polling at the same time, each after
\* its own upload.
C7_Witness ==
    /\ \A s \in Sessions : Polling(s) /\ lookups[s] > 0
    /\ BagCardinality(puts) = 2
    /\ Cardinality(BucketKeys) = 2

\* C8: an invocation calls upload_file at most once (once when it has a
\* path, never when it has none) and writes one object when the call
\* returns; no step of the handler changes the table or an object already
\* in the bucket.
C8_OneWriteNoRecordChange ==
    /\ [](\A s \in Sessions :
            /\ uploads[s] <= 1
            /\ Cardinality(uploadKeys[s]) <= 1
            /\ pc[s] = "done" => uploads[s] = (IF image_path[s] = None THEN 0 ELSE 1)
            /\ (pc[s] \in {"lookup", "sleep", "done"} /\ image_path[s] # None
                /\ ~(raised[s] # None /\ lookups[s] = 0))
                  => (CopiesIn(file_name[s], puts) = 1 /\ file_name[s] \in BucketKeys))
    /\ [][pc' # pc => /\ table' = table
                      /\ bucket \subseteq bucket'
                      /\ Cardinality(bucket') <= Cardinality(bucket) + 1]_vars

\* C8 witness: an invocation made its one upload, read its record and
\* returned; the record is still in the table.
C8_Witness ==
    \E s \in Sessions :
        /\ pc[s] = "done" /\ Found(s)
        /\ uploads[s] = 1
        /\ response[s].Item \in table
        /\ Cardinality(bucket) = 2

\* C9: a lookup that raises ends the invocation at once with the error
\* result: a finished invocation makes no further lookup and no further
\* sleep, and a further lookup is only ever made after a lookup that
\* returned without a record.
C9_NoRetryOnError ==
    /\ [](\A s \in Sessions :
            raised[s] # None => (pc[s] = "done" /\ result[s] \in ErrorResults))
    /\ [][\A s \in Sessions :
            pc[s] = "done" => \/ pc'[s] = "idle"
                              \/ /\ pc'[s] = "done"
                                 /\ lookups'[s] = lookups[s]
                                 /\ sleeps'[s] = sleeps[s]]_vars
    /\ [][\A s \in Sessions :
            (lookups[s] > 0 /\ lookups'[s] > lookups[s])
            => /\ raised[s] = None
               /\ DOMAIN response[s] = {"ResponseMetadata"}
               /\ sleeps[s] = lookups[s]]_vars

\* C9 witness: a lookup raised while attempts remained, and the invocation
\* ended there.
C9_Witness ==
    \E s \in Sessions :
        /\ pc[s] = "done" /\ raised[s] # None
        /\ lookups[s] > 1 /\ lookups[s] < max_retries
        /\ sleeps[s] = lookups[s] - 1

\* C10: once polling has begun an invocation is waiting or done. It is done
\* only when a lookup found the record, the 30 attempts are used up or an
\* exception was caught; after a find it makes no further lookup or sleep;
\* and while it has made fewer than 30 lookups, found nothing and caught
\* nothing it is waiting, with its next step enabled and leading to the
\* next lookup.
C10_WaitingOrDone ==
    /\ [](\A s \in Sessions :
            /\ (pc[s] = "done" /\ uploads[s] = 1 /\ ~(raised[s] # None /\ lookups[s] = 0))
                  => \/ Found(s)
                     \/ raised[s] # None
                     \/ lookups[s] = max_retries /\ sleeps[s] = max_retries
            /\ (uploads[s] = 1 /\ ~Found(s) /\ raised[s] = None
                /\ lookups[s] < max_retries)
                  => Polling(s)
            /\ Found(s) => pc[s] = "done"
            /\ Polling(s) => ENABLED (LookupOk(s) \/ Sleep(s)))
    /\ [][\A s \in Sessions :
            (Polling(s) /\ lookups[s] < max_retries /\ pc'[s] # pc[s])
            => \/ pc[s] = "sleep" /\ pc'[s] = "lookup" /\ lookups'[s] = lookups[s]
               \/ pc[s] = "lookup" /\ lookups'[s] = lookups[s] + 1]_vars
    /\ [][\A s \in Sessions :
            Found(s) => \/ pc'[s] = "idle"
                        \/ lookups'[s] = lookups[s] /\ sleeps'[s] = sleeps[s]]_vars

\* C10 witness: one invocation is still waiting with 29 lookups made and
\* its last one ahead, while another is done after finding its record.
C10_Witness ==
    \E s, t \in Sessions :
        /\ pc[s] = "lookup" /\ lookups[s] = max_retries - 1
        /\ pc[t] = "done" /\ Found(t) /\ lookups[t] < max_retries

\* The lookups of s that returned without a record: every lookup but a last
\* one that found the record or raised.
Misses(s) ==
    lookups[s] - (IF Found(s) \/ (raised[s] # None /\ lookups[s] > 0) THEN 1 ELSE 0)

\* C11: each sleep lasts 2 seconds and one sleep separates consecutive
\* lookups; an invocation sleeps once per lookup that found nothing, so at
\* most 30 times and 60 seconds in all; and once the 30th lookup has found
\* nothing the result is the timeout message, whatever is written later.
C11_FixedDelayBounded ==
    \A s \in Sessions :
        /\ slept[s] = SleepSeconds * sleeps[s]
        /\ sleeps[s] <= max_retries
        /\ slept[s] <= max_retries * SleepSeconds
        /\ pc[s] = "lookup" => (sleeps[s] = lookups[s] /\ Misses(s) = lookups[s])
        /\ pc[s] = "sleep" => (sleeps[s] = lookups[s] - 1 /\ Misses(s) = lookups[s])
        /\ pc[s] = "done" => sleeps[s] = Misses(s)
        /\ (lookups[s] = max_retries /\ ~Found(s) /\ raised[s] = None)
              => /\ pc[s] \in {"sleep", "done"}
                 /\ pc[s] = "done" => (result[s] = TimeoutMsg
                                       /\ slept[s] = max_retries * SleepSeconds)

\* C11 witness: an invocation slept 30 times, 60 seconds in all, and timed
\* out, although its record with a description is in the table by now.
C11_Witness ==
    \E s \in Sessions :
        /\ pc[s] = "done" /\ result[s] = TimeoutMsg
        /\ sleeps[s] = max_retries /\ slept[s] = 60
        /\ HasItem(file_name[s])
        /\ "description" \in DOMAIN ItemAt(file_name[s])

\* The upload_file call of s has returned: its object was written.
Uploaded(s) == uploads[s] = 1 /\ CopiesIn(file_name[s], puts) = 1

\* C12: an invocation looks up or sleeps only after its upload_file call
\* has returned; while the upload is pending, and after it raised, the
\* invocation has made no lookup and no sleep, and a raising upload ends it
\* with the error result.
C12_UploadBeforeLookups ==
    \A s \in Sessions :
        /\ (lookups[s] > 0 \/ sleeps[s] > 0 \/ Polling(s))
              => (Uploaded(s) /\ file_name[s] \in BucketKeys)
        /\ pc[s] = "upload" => (uploads[s] = 0 /\ lookups[s] = 0 /\ sleeps[s] = 0)
        /\ (uploads[s] = 1 /\ ~Uploaded(s))
              => /\ pc[s] = "done"
                 /\ raised[s] # None
                 /\ result[s] = ErrorResult(raised[s])
                 /\ lookups[s] = 0 /\ sleeps[s] = 0
                 /\ lookupKeys[s] = {}

\* C12 witness: one invocation ended on a raising upload with no lookup
\* and no sleep, while another, whose upload returned, is polling.
C12_Witness ==
    \E s, t \in Sessions :
        /\ pc[s] = "done" /\ uploads[s] = 1 /\ ~Uploaded(s)
        /\ raised[s] # None /\ lookups[s] = 0 /\ sleeps[s] = 0
        /\ Polling(t) /\ Uploaded(t) /\ lookups[t] > 1

\* The handler of s is running.
Running(s) == pc[s] \in {"upload", "lookup", "sleep"}

\* The four outcomes of an invocation.
Outcomes ==
    {PleaseUpload, NoDescription, TimeoutMsg} \cup Descs \cup ErrorResults

\* The calls a running invocation can still make: a bound that every call
\* it returns from lowers.
CallsLeft(s) ==
    CASE pc[s] = "upload" -> 2 * max_retries + 1
      [] pc[s] = "lookup" -> 2 * (max_retries - i[s])
      [] pc[s] = "sleep" -> 2 * (max_retries - i[s]) - 1
      [] OTHER -> 0

\* C13: every invocation ends, given that every external call returns or
\* raises: a running handler is always blocked in a call whose return is
\* possible, and each return leaves it with fewer calls to make, of which
\* there are at most 61. It ends with the upload prompt, the found record's
\* description or the placeholder, the timeout message or an error string,
\* never with None; a handler that has not ended has no result.
C13_TerminatesWithOutcome ==
    /\ [](\A s \in Sessions :
            /\ pc[s] = "done" => (result[s] \in Outcomes /\ result[s] # None)
            /\ pc[s] = "done" =>
                  \/ image_path[s] = None /\ result[s] = PleaseUpload
                  \/ Found(s) /\ result[s] \in Descs \cup {NoDescription}
                  \/ raised[s] # None /\ result[s] = ErrPrefix \o raised[s]
                  \/ /\ lookups[s] = max_retries /\ ~Found(s) /\ raised[s] = None
                     /\ result[s] = "Timeout: AI did not respond or Lambda encountered an error."
            /\ pc[s] # "done" => result[s] = None
            /\ Running(s) => (CallsLeft(s) > 0 /\ ENABLED CallReturns(s))
            /\ uploads[s] + lookups[s] + sleeps[s] + CallsLeft(s) <= 2 * max_retries + 1)
    /\ [][\A s \in Sessions :
            Running(s) => IF pc'[s] = pc[s]
                          THEN CallsLeft(s)' = CallsLeft(s)
                          ELSE CallsLeft(s)' < CallsLeft(s)]_vars

\* C13 under the fairness of FairSpec, stated as it reads: a running
\* invocation leads to a finished one.
C13_EventuallyDone == \A s \in Sessions : Running(s) ~> (pc[s] = "done")

\* C13 witness: one invocation has ended on the timeout after running all
\* 30 attempts, the other on an error string.
C13_Witness ==
    \E s, t \in Sessions :
        /\ pc[s] = "done" /\ result[s] = TimeoutMsg /\ sleeps[s] = max_retries
        /\ pc[t] = "done" /\ result[t] \in ErrorResults /\ lookups[t] > 0

\* What session s holds of its invocation: its locals and the calls made.
OwnState(s) ==
    <<image_path[s], file_name[s], i[s], response[s], result[s], raised[s],
      uploads[s], lookups[s], sleeps[s], slept[s]>>

\* C14: with invocations interleaved on the shared bucket and table, an
\* invocation only ever reads the record stored under its own file_name;
\* a step of another session or of the pipeline leaves its locals, its
\* counters and its result as they are; and what a returning lookup does
\* (end with the record's description, or go on to sleep) is decided by the
\* presence and content of its own record alone.
C14_SessionsIndependent ==
    /\ [](\A s, t \in Sessions :
            Found(s) => /\ response[s].Item.image_id = file_name[s]
                        /\ (t # s /\ file_name[t] # None)
                              => response[s].Item.image_id # file_name[t])
    /\ [][\A s \in Sessions : pc'[s] = pc[s] => OwnState(s)' = OwnState(s)]_vars
    /\ [][\A s \in Sessions :
            (pc[s] = "lookup" /\ pc'[s] # "lookup" /\ raised'[s] = None)
            => IF HasItem(file_name[s])
               THEN /\ pc'[s] = "done"
                    /\ response'[s] = [Item |-> ItemAt(file_name[s])]
                    /\ result'[s] =
                          IF "description" \in DOMAIN ItemAt(file_name[s])
                          THEN ItemAt(file_name[s]).description
                          ELSE NoDescription
               ELSE /\ pc'[s] = "sleep"
                    /\ result'[s] = None
                    /\ lookups'[s] = lookups[s] + 1]_vars

\* C14 witness: two invocations have ended side by side: one timed out with
\* no record of its own while the other's record, with a description, was
\* in the table, and the other returned that description.
C14_Witness ==
    \E s, t \in Sessions :
        /\ s # t
        /\ pc[s] = "done" /\ result[s] = TimeoutMsg /\ ~HasItem(file_name[s])
        /\ pc[t] = "done" /\ Found(t) /\ result[t] \in Descs
        /\ lookups[t] > 1
        /\ HasItem(file_name[t])

====
